---- MODULE Spec2Model ----
(***************************************************************************)
(* Model of the file/folder workflow of components/file-manager.tsx       *)
(* (FileManager): the upload orchestration (handleDrop, handleFileUpload,  *)
(* uploadFile), the folder lifecycle (selection, deleteFolder), the        *)
(* listing refreshes (loadFiles, loadFolders) and the two backend stores   *)
(* they talk to (rows of "files"/"folders", blobs of "user-files").        *)
(*                                                                         *)
(* Execution model.  The component runs on one JavaScript thread.  Every   *)
(* action below is one run-to-completion slice of a handler: from an event *)
(* or a backend response up to the next `await`.  A handler reads          *)
(* selectedFolder through the closure of the render in which the event     *)
(* fired, so each running handler carries its own copy (`sel`).  The       *)
(* continuation of `await uploadFile(file)` inside the batch loops is a    *)
(* microtask: it runs before any other event, response or timer (Busy).    *)
(* A backend call takes effect in the store and is answered in the same    *)
(* step; every call may fail.                                              *)
(***************************************************************************)
EXTENDS Integers, Sequences, FiniteSets, TLC

NULL == "null"

\* ---- bounds of the model ----
MaxBatches == 2
MaxBatchLen == 2
\* files handed to the two loops in one run, all batches together
MaxFiles == 3
\* interval callbacks modelled per awaited blob upload
MaxTicks == 1
\* confirmed deleteFolder and handleDeleteFile calls modelled in one run
MaxDeletes == 1
\* files handed over in a run in which deleteFolder or handleDeleteFile is
\* called
MaxFilesWithDelete == 1
\* selection changes made by the user in one run
MaxSelects == 1
\* backend calls that fail in one run
MaxFaults == 2

\* ---- the universe of inputs ----
UserId == "u1"
Folders == {"d1"}
Names == {"a.txt"}
maxSize == 50 * 1024 * 1024
Sizes == {maxSize, maxSize + 1}
\* the files the user can pick or drop: one of the largest accepted size and
\* one a byte larger, under the same display name
File == [name : Names, size : Sizes]
Batches == 1..MaxBatches
BatchInputs == UNION {[1..n -> File] : n \in 1..MaxBatchLen}
ProgressStep == 10
ProgressCap == 90

\* file.name.split(".").pop(): the text after the last dot, the whole name
\* when it has no dot.
fileExt(name) == IF name = "a.txt" THEN "txt" ELSE name

VARIABLES
  selectedFolder,   \* useState: the selected folder id, NULL for top-level
  files,            \* useState: the displayed file listing (sequence of rows)
  folders,          \* useState: the displayed folder listing (set of ids)
  loading,          \* useState
  uploading,        \* useState
  uploadProgress,   \* useState: sequence of UploadProgress entries
  dbFiles,          \* rows of table "files"
  dbFolders,        \* rows of table "folders" (ids of the user's folders)
  blobs,            \* paths occupied in bucket "user-files"
  batch,            \* the running handleDrop / handleFileUpload invocations
  del,              \* the running deleteFolder invocation
  fdel,             \* the running handleDeleteFile invocation
  gate,             \* DashboardPage: its session check, `user`, subscription
  pendingFiles,     \* loadFiles() calls issued by the effect, not yet answered
  pendingFolders,   \* a loadFolders() call issued by the effect is unanswered
  timers,           \* pending setTimeout removals, counted per file name
  clock,            \* the store's source of row ids / created_at
  alerts,           \* history: the alert()s of uploadFile and deleteFolder
  calls,            \* history: blob/metadata requests issued by uploads
  queries,          \* history: the kinds of metadata request issued so far,
                    \*   each with the columns its filter (or its row) names
  inserted,         \* history: rows inserted, with the upload that inserted
  delHist,          \* history: summary of each deleteFolder call that returned
  faults,           \* history: the number of backend calls that have failed
  selects           \* history: the number of selection changes by the user

vars == <<selectedFolder, files, folders, loading, uploading, uploadProgress,
          dbFiles, dbFolders, blobs, batch, del, fdel, gate, pendingFiles,
          pendingFolders, timers, clock, alerts, calls, queries, inserted, delHist, faults,
          selects>>

uiVars == <<selectedFolder, files, folders, loading, uploading, uploadProgress>>
storeVars == <<dbFiles, dbFolders, blobs>>
histVars == <<alerts, calls, queries, inserted, delHist, selects>>
\* what no step of an upload, a listing or deleteFolder touches
restVars == <<fdel, gate>>

NoPath == [user |-> NULL, folder |-> NULL, stamp |-> 0, ext |-> NULL]
IdleBatch == [pc |-> "idle", queue |-> <<>>, idx |-> 0,
              sel |-> NULL, startSel |-> NULL, path |-> NoPath,
              ticks |-> 0]
\* DashboardPage after its effect has run: getUser() is awaited, the auth
\* listener is subscribed, nothing is rendered but "Cargando..."
\*   check: what getUser() has answered; user: the `user` state is set, so
\*   FileManager is rendered; pushes: router.push("/") calls so far;
\*   events / last: the auth events delivered so far and the latest of them
NoEvent == [event |-> NULL, session |-> FALSE]
GateWaiting == [check |-> "pending", user |-> FALSE, mounted |-> TRUE,
                subscribed |-> TRUE, pushes |-> 0, events |-> 0, last |-> NoEvent]
\* DashboardPage once getUser() has answered with a user
GateOpen == [GateWaiting EXCEPT !.check = "user", !.user = TRUE]
\* handleDeleteFile: the row it was called with; n counts the confirmed calls
IdleFileDel == [pc |-> "idle", file |-> NULL, sel |-> NULL, n |-> 0]
\* n counts the confirmed calls so far
IdleDel == [pc |-> "idle", folderId |-> NULL, sel |-> NULL, n |-> 0,
            cascadeOk |-> FALSE, folderAsked |-> FALSE, folderOk |-> FALSE,
            refFolders |-> FALSE, refFiles |-> FALSE]

\* ---- pure helpers ----

\* prev.filter((p) => p.fileName !== name)
RECURSIVE dropName(_, _)
dropName(s, name) ==
  IF s = <<>> THEN <<>>
  ELSE IF Head(s).fileName # name THEN <<Head(s)>> \o dropName(Tail(s), name)
       ELSE dropName(Tail(s), name)

\* .order("created_at", { ascending: false }): rows are created in id order
RECURSIVE NewestFirst(_)
NewestFirst(S) ==
  IF S = {} THEN <<>>
  ELSE LET top == CHOOSE r \in S : \A q \in S : q.id <= r.id
       IN <<top>> \o NewestFirst(S \ {top})

\* the rows of a table that a chain of .eq(column, value) / .is(column, null)
\* selects
matching(rows, filter) ==
  {r \in rows : \A c \in DOMAIN filter : r[c] = filter[c]}

\* from("files").select("*").eq("user_id", user.id) + .eq / .is ("folder_id", ...)
listFilesFilter(sel) == [user_id |-> UserId, folder_id |-> sel]
\* from("folders").select("*").eq("user_id", user.id)
listFoldersFilter == [user_id |-> UserId]
\* from("files").delete().eq("folder_id", folderId)
deleteFilesFilter(d) == [folder_id |-> d]
\* from("folders").delete().eq("id", folderId)
deleteFolderFilter(d) == [id |-> d]
\* from("files").delete().eq("id", file.id)
deleteFileFilter(id) == [id |-> id]

\* what is remembered of a metadata request: the operation and the columns
\* its filter names (for an insert: the columns of the row that say whose it is)
query(op, filter) == [op |-> op, cols |-> DOMAIN filter]

\* the rows loadFiles() asks for when selectedFolder = sel
listFiles(sel) ==
  NewestFirst(matching(dbFiles, listFilesFilter(sel)))

\* the rows loadFolders() asks for; the listing is kept as the set of its ids
\* (its order, newest first, decides nothing in the workflow)
listFolders == {d \in dbFolders : TRUE}


\* ---- the state after the first render and its effect ----
Init ==
  /\ selectedFolder = NULL
  /\ files = <<>>
  /\ folders = {}
  /\ loading = TRUE
  /\ uploading = FALSE
  /\ uploadProgress = <<>>
  /\ dbFiles = {}
  /\ dbFolders = Folders
  /\ blobs = {}
  /\ batch = [b \in Batches |-> IdleBatch]
  /\ del = IdleDel
  /\ fdel = IdleFileDel
  /\ gate = GateOpen
  /\ pendingFiles = {NULL}
  /\ pendingFolders = TRUE
  /\ timers = [n \in Names |-> 0]
  /\ clock = 1
  /\ alerts = {}
  /\ calls = {}
  /\ queries = {query("listFiles", listFilesFilter(NULL)),
                query("listFolders", listFoldersFilter)}
  /\ inserted = {}
  /\ delHist = {}
  /\ faults = 0
  /\ selects = 0

\* the continuation of an `await uploadFile(file)` is queued: it runs before
\* any event, response or timer
Busy == \E b \in Batches : batch[b].pc = "next"

\* a backend call answers with success or with an error
answer(ok) ==
  /\ ok \/ faults < MaxFaults
  /\ faults' = IF ok THEN faults ELSE faults + 1
  /\ UNCHANGED selects

\* ---- UploadProgress entries ----
\* `owner` is history: the uploadFile call (batch, index) that appended the
\* entry.  The code never reads it; it matches entries by fileName only.

newTask(name, b, i) ==
  [fileName |-> name, progress |-> 0, status |-> "uploading", owner |-> <<b, i>>]

Min(x, y) == IF x < y THEN x ELSE y

\* the setInterval callback: prev.map(p => p.fileName === file.name &&
\*   p.status === "uploading" ? {...p, progress: Math.min(p.progress + 10, 90)} : p)
tickTasks(s, name) ==
  [k \in DOMAIN s |->
     IF s[k].fileName = name /\ s[k].status = "uploading"
     THEN [s[k] EXCEPT !.progress = Min(@ + ProgressStep, ProgressCap)]
     ELSE s[k]]

\* prev.map(p => p.fileName === file.name ? {...p, progress: 100, status} : p)
markTasks(s, name, st) ==
  [k \in DOMAIN s |->
     IF s[k].fileName = name
     THEN [s[k] EXCEPT !.progress = 100, !.status = st]
     ELSE s[k]]

taskOf(s, b, i) == {s[k] : k \in {j \in DOMAIN s : s[j].owner = <<b, i>>}}
taskStatus(s, b, i) ==
  IF taskOf(s, b, i) = {} THEN "missing" ELSE (CHOOSE t \in taskOf(s, b, i) : TRUE).status
taskProgress(s, b, i) ==
  IF taskOf(s, b, i) = {} THEN -1 ELSE (CHOOSE t \in taskOf(s, b, i) : TRUE).progress

\* `${user.id}/${selectedFolder ? `${selectedFolder}/` : ""}${Date.now()}-${random}.${fileExt}`
\* The time stamp and random suffix are a value no other call gets: the
\* position of the call, batch b file i.
stamp(b, i) == (b - 1) * MaxBatchLen + i
storagePath(sel, st, name) ==
  [user |-> UserId, folder |-> sel, stamp |-> st, ext |-> fileExt(name)]

\* mutant of fileRow: folder_id read from the current selection instead of
\* the handler's own selectedFolder
fileRowLiveFolder(id, path, file, sel) ==
  [id |-> id, user_id |-> UserId, name |-> path, original_name |-> file.name,
   file_size |-> file.size, storage_path |-> path, folder_id |-> selectedFolder]

\* the row uploadFile hands to .from("files").insert(...); id is the store's
fileRow(id, path, file, sel) ==
  [id |-> id, user_id |-> UserId, name |-> path, original_name |-> file.name,
   file_size |-> file.size, storage_path |-> path, folder_id |-> sel]

alertMsg(kind, b, i, d) == [kind |-> kind, b |-> b, i |-> i, d |-> d]
\* a request of upload (b, i): the blob upload, the row insert or the blob
\* remove, with the path it names and the size of the file it is about
callMsg(op, b, i, path, size) ==
  [op |-> op, b |-> b, i |-> i, path |-> path, size |-> size]

\* ---- the batch loops: handleDrop, handleFileUpload ----

\* mutant of tooLarge: the limit taken one byte too high
tooLargeOffByOne(file) == file.size > maxSize + 1

\* file.size > maxSize
tooLarge(file) == file.size > maxSize

\* uploadFile(file) has returned: the loop takes the next file, or ends
nextInLoop(rec) ==
  [rec EXCEPT !.queue = Tail(@), !.idx = @ + 1,
              !.path = NoPath, !.startSel = NULL, !.ticks = 0,
              !.pc = IF Tail(rec.queue) = <<>> THEN "done" ELSE "next"]

\* the files batch b has been handed
filesOf(rec) == IF rec.pc = "idle" THEN 0 ELSE rec.idx - 1 + Len(rec.queue)
RECURSIVE filesUpTo(_)
filesUpTo(b) == IF b = 0 THEN 0 ELSE filesOf(batch[b]) + filesUpTo(b - 1)

startBatch(b, fs) ==
  /\ batch[b].pc = "idle"
  /\ filesUpTo(MaxBatches) + Len(fs) <= MaxFiles
  /\ del.n + fdel.n > 0 => filesUpTo(MaxBatches) + Len(fs) <= MaxFilesWithDelete
  /\ b > 1 => batch[b - 1].pc # "idle"
  /\ batch' = [batch EXCEPT ![b] = [IdleBatch EXCEPT !.pc = "next", !.queue = fs,
                                      !.idx = 1, !.sel = selectedFolder]]
  /\ UNCHANGED <<uiVars, storeVars, del, pendingFiles, pendingFolders, timers,
                 clock, histVars, faults>>
  /\ UNCHANGED restVars

\* onDrop: the files of e.dataTransfer, uploaded one after the other
HandleDrop(b, fs) ==
  /\ ~Busy
  /\ IF fs = <<>> THEN UNCHANGED vars ELSE startBatch(b, fs)

\* onChange of the hidden file input, opened by the button that is disabled
\* while `uploading`
HandleFileUpload(b, fs) ==
  /\ ~Busy
  /\ ~uploading
  /\ IF fs = <<>> THEN UNCHANGED vars ELSE startBatch(b, fs)

\* uploadFile(file) up to its first await: the size check, the new task and
\* the blob upload request
UploadFile(b) ==
  LET rec == batch[b]
      file == Head(rec.queue)
      started == [rec EXCEPT !.startSel = selectedFolder]
  IN
  /\ rec.pc = "next"
  /\ UNCHANGED <<faults, selects, queries>>
  /\ IF tooLarge(file)
     THEN /\ alerts' = alerts \cup {alertMsg("oversize", b, rec.idx, NULL)}
          /\ batch' = [batch EXCEPT ![b] = nextInLoop(rec)]
          /\ UNCHANGED <<uiVars, storeVars, del, pendingFiles, pendingFolders,
                         timers, clock, calls, inserted, delHist>>
     ELSE LET path == storagePath(rec.sel, stamp(b, rec.idx), file.name) IN
          /\ uploadProgress' = Append(uploadProgress, newTask(file.name, b, rec.idx))
          /\ uploading' = TRUE
          /\ calls' = calls \cup {callMsg("upload", b, rec.idx, path, file.size)}
          /\ batch' = [batch EXCEPT ![b] = [started EXCEPT !.pc = "blob", !.path = path]]
          /\ UNCHANGED <<selectedFolder, files, folders, loading, storeVars, del,
                         pendingFiles, pendingFolders, timers, clock, alerts,
                         inserted, delHist>>
  /\ UNCHANGED restVars

\* the 200 ms interval that runs while the blob upload is awaited
ProgressTick(b) ==
  /\ ~Busy
  /\ UNCHANGED faults
  /\ batch[b].pc = "blob"
  /\ batch[b].ticks < MaxTicks
  /\ batch' = [batch EXCEPT ![b].ticks = @ + 1]
  /\ uploadProgress' = tickTasks(uploadProgress, Head(batch[b].queue).name)
  /\ UNCHANGED <<selectedFolder, files, folders, loading, uploading, storeVars,
                 del, pendingFiles, pendingFolders, timers, clock, histVars>>
  /\ UNCHANGED restVars

\* catch + finally of uploadFile: alert, mark error, setUploading(false), return
failUpload(b, rec, tasks) ==
  /\ alerts' = alerts \cup {alertMsg("upload", b, rec.idx, NULL)}
  /\ uploadProgress' = markTasks(tasks, Head(rec.queue).name, "error")
  /\ uploading' = FALSE
  /\ batch' = [batch EXCEPT ![b] = nextInLoop(rec)]

\* the answer to storage.from("user-files").upload(fileName, file, {upsert: false})
BlobUploadDone(b, ok) ==
  LET rec == batch[b]
      name == Head(rec.queue).name
  IN
  /\ ~Busy
  /\ answer(ok)
  /\ rec.pc = "blob"
  /\ IF ok
     THEN /\ blobs' = blobs \cup {rec.path}
          /\ calls' = calls \cup
                {callMsg("insert", b, rec.idx, rec.path, Head(rec.queue).size)}
          /\ queries' = queries \cup
                {query("insertFile", fileRow(clock, rec.path, Head(rec.queue), rec.sel))}
          /\ batch' = [batch EXCEPT ![b].pc = "insert"]
          /\ UNCHANGED <<uiVars, dbFiles, dbFolders, alerts, inserted>>
     ELSE /\ failUpload(b, rec, markTasks(uploadProgress, name, "error"))
          /\ UNCHANGED <<selectedFolder, files, folders, loading, storeVars, calls,
                         queries, inserted>>
  /\ UNCHANGED <<del, pendingFiles, pendingFolders, timers, clock, delHist>>
  /\ UNCHANGED restVars

\* the answer to from("files").insert({...})
InsertDone(b, ok) ==
  LET rec == batch[b]
      file == Head(rec.queue)
      row == fileRow(clock, rec.path, file, rec.sel)
  IN
  /\ ~Busy
  /\ answer(ok)
  /\ rec.pc = "insert"
  /\ IF ok
     THEN /\ dbFiles' = dbFiles \cup {row}
          /\ inserted' = inserted \cup {[row |-> row, b |-> b, i |-> rec.idx]}
          /\ clock' = clock + 1
          /\ uploadProgress' = markTasks(uploadProgress, file.name, "completed")
          /\ queries' = queries \cup {query("listFiles", listFilesFilter(rec.sel))}
          /\ batch' = [batch EXCEPT ![b].pc = "loadFiles"]
          /\ UNCHANGED calls
     ELSE /\ calls' = calls \cup {callMsg("remove", b, rec.idx, rec.path, file.size)}
          /\ batch' = [batch EXCEPT ![b].pc = "remove"]
          /\ UNCHANGED <<dbFiles, inserted, clock, uploadProgress, queries>>
  /\ UNCHANGED <<selectedFolder, files, folders, loading, uploading, dbFolders,
                 blobs, del, pendingFiles, pendingFolders, timers, alerts,
                 delHist>>
  /\ UNCHANGED restVars

\* the answer to the compensating storage.remove([fileName]); its result is
\* not looked at
RemoveDone(b, ok) ==
  LET rec == batch[b]
      name == Head(rec.queue).name
  IN
  /\ ~Busy
  /\ answer(ok)
  /\ rec.pc = "remove"
  /\ blobs' = IF ok THEN blobs \ {rec.path} ELSE blobs
  /\ failUpload(b, rec, markTasks(uploadProgress, name, "error"))
  /\ UNCHANGED <<selectedFolder, files, folders, loading, dbFiles, dbFolders, del,
                 pendingFiles, pendingFolders, timers, clock, calls, queries,
                 inserted, delHist>>
  /\ UNCHANGED restVars

\* the answer to the loadFiles() awaited after a completed upload, then the
\* 3 s removal timer is set and uploadFile returns through its finally
UploadRefreshDone(b, ok) ==
  LET rec == batch[b]
      name == Head(rec.queue).name
  IN
  /\ ~Busy
  /\ answer(ok)
  /\ rec.pc = "loadFiles"
  /\ files' = IF ok THEN listFiles(rec.sel) ELSE files
  /\ loading' = FALSE
  /\ timers' = [timers EXCEPT ![name] = @ + 1]
  /\ uploading' = FALSE
  /\ batch' = [batch EXCEPT ![b] = nextInLoop(rec)]
  /\ UNCHANGED <<selectedFolder, folders, uploadProgress, storeVars, del,
                 pendingFiles, pendingFolders, clock, alerts, calls, queries,
                 inserted, delHist>>
  /\ UNCHANGED restVars

\* a setTimeout(..., 3000) callback: prev.filter(p => p.fileName !== file.name)
RemovalTimer(name) ==
  /\ ~Busy
  /\ UNCHANGED faults
  /\ timers[name] > 0
  /\ timers' = [timers EXCEPT ![name] = @ - 1]
  /\ uploadProgress' = dropName(uploadProgress, name)
  /\ UNCHANGED <<selectedFolder, files, folders, loading, uploading, storeVars,
                 batch, del, pendingFiles, pendingFolders, clock, histVars>>
  /\ UNCHANGED restVars

\* ---- listings and selection ----

\* setSelectedFolder from the sidebar; a changed value re-runs the effect,
\* which calls loadFiles() and loadFolders() without awaiting them
SelectFolder(x) ==
  /\ ~Busy
  /\ UNCHANGED faults
  /\ x \in folders \cup {NULL}
  /\ x # selectedFolder
  /\ selects < MaxSelects
  /\ selects' = selects + 1
  /\ selectedFolder' = x
  /\ pendingFiles' = pendingFiles \cup {x}
  /\ pendingFolders' = TRUE
  /\ queries' = queries \cup {query("listFiles", listFilesFilter(x)),
                               query("listFolders", listFoldersFilter)}
  /\ UNCHANGED <<files, folders, loading, uploading, uploadProgress, storeVars,
                 batch, del, timers, clock, alerts, calls, inserted, delHist>>
  /\ UNCHANGED restVars

\* mutant of LoadFilesDone: setFiles(data || []) reached on a failed request
\* too, which empties the listing
LoadFilesDoneClearing(t, ok) ==
  /\ ~Busy
  /\ answer(ok)
  /\ t \in pendingFiles
  /\ pendingFiles' = pendingFiles \ {t}
  /\ files' = IF ok THEN listFiles(t) ELSE <<>>
  /\ loading' = FALSE
  /\ UNCHANGED <<selectedFolder, folders, uploading, uploadProgress, storeVars,
                 batch, del, pendingFolders, timers, clock, alerts, calls,
                 queries, inserted, delHist>>
  /\ UNCHANGED restVars

\* the answer to a loadFiles() of the effect
LoadFilesDone(t, ok) ==
  /\ ~Busy
  /\ answer(ok)
  /\ t \in pendingFiles
  /\ pendingFiles' = pendingFiles \ {t}
  /\ files' = IF ok THEN listFiles(t) ELSE files
  /\ loading' = FALSE
  /\ UNCHANGED <<selectedFolder, folders, uploading, uploadProgress, storeVars,
                 batch, del, pendingFolders, timers, clock, alerts, calls,
                 queries, inserted, delHist>>
  /\ UNCHANGED restVars

\* the answer to a loadFolders() of the effect
LoadFoldersDone(ok) ==
  /\ ~Busy
  /\ answer(ok)
  /\ pendingFolders
  /\ pendingFolders' = FALSE
  /\ folders' = IF ok THEN listFolders ELSE folders
  /\ UNCHANGED <<selectedFolder, files, loading, uploading, uploadProgress,
                 storeVars, batch, del, pendingFiles, timers, clock, histVars>>
  /\ UNCHANGED restVars

\* ---- deleteFolder ----

\* what is recorded when deleteFolder returns: which requests it had issued
\* (folderAsked, refFolders, refFiles) and what it left behind
delSummary(folderOk, shown, rows) ==
  [folderId |-> del.folderId, cascadeOk |-> del.cascadeOk,
   folderAsked |-> del.folderAsked, folderOk |-> folderOk,
   refFolders |-> del.refFolders, refFiles |-> del.refFiles,
   alerted |-> alertMsg("deleteFolder", 0, 0, del.folderId) \in shown,
   rowsLeft |-> \E r \in rows : r.folder_id = del.folderId]

\* the x button of a displayed folder, then confirm(); a confirmed call
\* issues the bulk delete of the folder's file rows
DeleteFolder(d, confirmed) ==
  /\ ~Busy
  /\ UNCHANGED faults
  /\ d \in folders
  /\ del.pc = "idle"
  /\ del.n + fdel.n < MaxDeletes
  /\ filesUpTo(MaxBatches) <= MaxFilesWithDelete
  /\ IF confirmed
     THEN /\ del' = [IdleDel EXCEPT !.pc = "files", !.folderId = d,
                                    !.sel = selectedFolder, !.n = del.n + 1]
          /\ queries' = queries \cup {query("deleteFiles", deleteFilesFilter(d))}
     ELSE UNCHANGED <<del, queries>>
  /\ UNCHANGED <<uiVars, storeVars, batch, pendingFiles, pendingFolders, timers,
                 clock, alerts, calls, inserted, delHist, selects>>
  /\ UNCHANGED restVars

\* the answer to from("files").delete().eq("folder_id", folderId); an error
\* is only logged, the folder row's delete is issued next
DeleteFilesDone(ok) ==
  /\ ~Busy
  /\ answer(ok)
  /\ del.pc = "files"
  /\ dbFiles' = IF ok THEN dbFiles \ matching(dbFiles, deleteFilesFilter(del.folderId))
                 ELSE dbFiles
  /\ del' = [del EXCEPT !.pc = "folder", !.cascadeOk = ok, !.folderAsked = TRUE]
  /\ queries' = queries \cup {query("deleteFolder", deleteFolderFilter(del.folderId))}
  /\ UNCHANGED <<uiVars, dbFolders, blobs, batch, pendingFiles, pendingFolders,
                 timers, clock, alerts, calls, inserted, delHist>>
  /\ UNCHANGED restVars

\* the answer to from("folders").delete().eq("id", folderId)
DeleteFolderDone(ok) ==
  /\ ~Busy
  /\ answer(ok)
  /\ del.pc = "folder"
  /\ IF ok
     THEN /\ dbFolders' = dbFolders \ {del.folderId}
          /\ selectedFolder' = IF del.sel = del.folderId THEN NULL ELSE selectedFolder
          /\ pendingFiles' = IF selectedFolder' # selectedFolder
                             THEN pendingFiles \cup {selectedFolder'} ELSE pendingFiles
          /\ pendingFolders' = IF selectedFolder' # selectedFolder
                               THEN TRUE ELSE pendingFolders
          /\ del' = [del EXCEPT !.pc = "loadFolders", !.folderOk = TRUE,
                                 !.refFolders = TRUE]
          /\ queries' = queries \cup {query("listFolders", listFoldersFilter),
                                       query("listFiles", listFilesFilter(selectedFolder'))}
          /\ UNCHANGED <<alerts, delHist>>
     ELSE /\ alerts' = alerts \cup {alertMsg("deleteFolder", 0, 0, del.folderId)}
          /\ delHist' = delHist \cup {delSummary(FALSE, alerts', dbFiles)}
          /\ del' = [IdleDel EXCEPT !.n = del.n]
          /\ UNCHANGED <<dbFolders, selectedFolder, pendingFiles, pendingFolders,
                         queries>>
  /\ UNCHANGED <<files, folders, loading, uploading, uploadProgress, dbFiles,
                 blobs, batch, timers, clock, calls, inserted>>
  /\ UNCHANGED restVars

\* the answer to the awaited loadFolders(); loadFiles() is called next
DeleteRefreshFoldersDone(ok) ==
  /\ ~Busy
  /\ answer(ok)
  /\ del.pc = "loadFolders"
  /\ folders' = IF ok THEN listFolders ELSE folders
  /\ del' = [del EXCEPT !.pc = "loadFiles", !.refFiles = TRUE]
  /\ queries' = queries \cup {query("listFiles", listFilesFilter(del.sel))}
  /\ UNCHANGED <<selectedFolder, files, loading, uploading, uploadProgress,
                 storeVars, batch, pendingFiles, pendingFolders, timers, clock,
                 alerts, calls, inserted, delHist>>
  /\ UNCHANGED restVars

\* the answer to the awaited loadFiles(), which asks for the folder that was
\* selected when the x button was pressed; deleteFolder returns
DeleteRefreshFilesDone(ok) ==
  /\ ~Busy
  /\ answer(ok)
  /\ del.pc = "loadFiles"
  /\ files' = IF ok THEN listFiles(del.sel) ELSE files
  /\ loading' = FALSE
  /\ delHist' = delHist \cup {delSummary(del.folderOk, alerts, dbFiles)}
  /\ del' = [IdleDel EXCEPT !.n = del.n]
  /\ UNCHANGED <<selectedFolder, folders, uploading, uploadProgress, storeVars,
                 batch, pendingFiles, pendingFolders, timers, clock, alerts,
                 calls, queries, inserted>>
  /\ UNCHANGED restVars

\* ---- handleDeleteFile ----

\* the delete button of a displayed file, then confirm(); a confirmed call
\* asks the bucket to remove the file's blob
HandleDeleteFile(f, confirmed) ==
  /\ ~Busy
  /\ UNCHANGED <<faults, selects>>
  /\ f \in {files[k] : k \in DOMAIN files}
  /\ fdel.pc = "idle"
  /\ del.n + fdel.n < MaxDeletes
  /\ filesUpTo(MaxBatches) <= MaxFilesWithDelete
  /\ IF confirmed
     THEN fdel' = [IdleFileDel EXCEPT !.pc = "blob", !.file = f,
                                      !.sel = selectedFolder, !.n = fdel.n + 1]
     ELSE UNCHANGED fdel
  /\ UNCHANGED <<uiVars, storeVars, batch, del, pendingFiles, pendingFolders,
                 timers, clock, alerts, calls, queries, inserted, delHist>>
  /\ UNCHANGED gate

\* catch of handleDeleteFile: alert, return
failDeleteFile ==
  /\ alerts' = alerts \cup {alertMsg("deleteFile", 0, 0, fdel.file.id)}
  /\ fdel' = [IdleFileDel EXCEPT !.n = fdel.n]

\* mutant of DeleteFileBlobDone: storageError is not looked at, the row's
\* delete is issued whatever the bucket answered
DeleteFileBlobDoneUnchecked(ok) ==
  /\ ~Busy
  /\ answer(ok)
  /\ fdel.pc = "blob"
  /\ blobs' = IF ok THEN blobs \ {fdel.file.storage_path} ELSE blobs
  /\ queries' = queries \cup {query("deleteFile", deleteFileFilter(fdel.file.id))}
  /\ fdel' = [fdel EXCEPT !.pc = "row"]
  /\ UNCHANGED <<uiVars, dbFiles, dbFolders, batch, del, pendingFiles,
                 pendingFolders, timers, clock, alerts, calls, inserted, delHist>>
  /\ UNCHANGED gate

\* the answer to storage.from("user-files").remove([file.storage_path]); on
\* success the row's delete is issued
DeleteFileBlobDone(ok) ==
  /\ ~Busy
  /\ answer(ok)
  /\ fdel.pc = "blob"
  /\ IF ok
     THEN /\ blobs' = blobs \ {fdel.file.storage_path}
          /\ queries' = queries \cup
                {query("deleteFile", deleteFileFilter(fdel.file.id))}
          /\ fdel' = [fdel EXCEPT !.pc = "row"]
          /\ UNCHANGED alerts
     ELSE /\ failDeleteFile
          /\ UNCHANGED <<blobs, queries>>
  /\ UNCHANGED <<uiVars, dbFiles, dbFolders, batch, del, pendingFiles,
                 pendingFolders, timers, clock, calls, inserted, delHist>>
  /\ UNCHANGED gate

\* the answer to from("files").delete().eq("id", file.id); on success
\* loadFiles() is awaited
DeleteFileRowDone(ok) ==
  /\ ~Busy
  /\ answer(ok)
  /\ fdel.pc = "row"
  /\ IF ok
     THEN /\ dbFiles' = dbFiles \ matching(dbFiles, deleteFileFilter(fdel.file.id))
          /\ queries' = queries \cup {query("listFiles", listFilesFilter(fdel.sel))}
          /\ fdel' = [fdel EXCEPT !.pc = "loadFiles"]
          /\ UNCHANGED alerts
     ELSE /\ failDeleteFile
          /\ UNCHANGED <<dbFiles, queries>>
  /\ UNCHANGED <<uiVars, dbFolders, blobs, batch, del, pendingFiles,
                 pendingFolders, timers, clock, calls, inserted, delHist>>
  /\ UNCHANGED gate

\* the answer to the awaited loadFiles(); handleDeleteFile returns
DeleteFileRefreshDone(ok) ==
  /\ ~Busy
  /\ answer(ok)
  /\ fdel.pc = "loadFiles"
  /\ files' = IF ok THEN listFiles(fdel.sel) ELSE files
  /\ loading' = FALSE
  /\ fdel' = [IdleFileDel EXCEPT !.n = fdel.n]
  /\ UNCHANGED <<selectedFolder, folders, uploading, uploadProgress, storeVars,
                 batch, del, pendingFiles, pendingFolders, timers, clock, alerts,
                 calls, queries, inserted, delHist>>
  /\ UNCHANGED gate

Next ==
  \/ \E b \in Batches, fs \in BatchInputs \cup {<<>>} : HandleDrop(b, fs)
  \/ \E b \in Batches, fs \in BatchInputs \cup {<<>>} : HandleFileUpload(b, fs)
  \/ \E b \in Batches : UploadFile(b)
  \/ \E b \in Batches : ProgressTick(b)
  \/ \E b \in Batches, ok \in BOOLEAN : BlobUploadDone(b, ok)
  \/ \E b \in Batches, ok \in BOOLEAN : InsertDone(b, ok)
  \/ \E b \in Batches, ok \in BOOLEAN : RemoveDone(b, ok)
  \/ \E b \in Batches, ok \in BOOLEAN : UploadRefreshDone(b, ok)
  \/ \E n \in Names : RemovalTimer(n)
  \/ \E x \in Folders \cup {NULL} : SelectFolder(x)
  \/ \E t \in Folders \cup {NULL}, ok \in BOOLEAN : LoadFilesDone(t, ok)
  \/ \E ok \in BOOLEAN : LoadFoldersDone(ok)
  \/ \E d \in Folders, c \in BOOLEAN : DeleteFolder(d, c)
  \/ \E ok \in BOOLEAN : DeleteFilesDone(ok)
  \/ \E ok \in BOOLEAN : DeleteFolderDone(ok)
  \/ \E ok \in BOOLEAN : DeleteRefreshFoldersDone(ok)
  \/ \E ok \in BOOLEAN : DeleteRefreshFilesDone(ok)
  \/ \E f \in {files[k] : k \in DOMAIN files}, c \in BOOLEAN : HandleDeleteFile(f, c)
  \/ \E ok \in BOOLEAN : DeleteFileBlobDone(ok)
  \/ \E ok \in BOOLEAN : DeleteFileRowDone(ok)
  \/ \E ok \in BOOLEAN : DeleteFileRefreshDone(ok)

Spec == Init /\ [][Next]_vars

\* What the scheduler guarantees: a queued continuation runs, every backend
\* call is answered, a set timer fires.  The user owes no further event.
FairSpec ==
  /\ Spec
  /\ \A b \in Batches :
        /\ WF_vars(UploadFile(b))
        /\ WF_vars(\E ok \in BOOLEAN : BlobUploadDone(b, ok))
        /\ WF_vars(\E ok \in BOOLEAN : InsertDone(b, ok))
        /\ WF_vars(\E ok \in BOOLEAN : RemoveDone(b, ok))
        /\ WF_vars(\E ok \in BOOLEAN : UploadRefreshDone(b, ok))
  /\ \A n \in Names : WF_vars(RemovalTimer(n))
  /\ WF_vars(\E t \in Folders \cup {NULL}, ok \in BOOLEAN : LoadFilesDone(t, ok))
  /\ WF_vars(\E ok \in BOOLEAN : LoadFoldersDone(ok))
  /\ WF_vars(\E ok \in BOOLEAN : DeleteFilesDone(ok))
  /\ WF_vars(\E ok \in BOOLEAN : DeleteFolderDone(ok))
  /\ WF_vars(\E ok \in BOOLEAN : DeleteRefreshFoldersDone(ok))
  /\ WF_vars(\E ok \in BOOLEAN : DeleteRefreshFilesDone(ok))
  /\ WF_vars(\E ok \in BOOLEAN : DeleteFileBlobDone(ok))
  /\ WF_vars(\E ok \in BOOLEAN : DeleteFileRowDone(ok))
  /\ WF_vars(\E ok \in BOOLEAN : DeleteFileRefreshDone(ok))

\* ---- DashboardPage: the session gate in front of FileManager ----

\* auth events delivered to the listener in one run
MaxAuthEvents == 2
\* files and failed calls of the workflow followed behind the gate
MaxGateFiles == 1
MaxGateFaults == 1

AuthEvents == {"SIGNED_IN", "SIGNED_OUT", "TOKEN_REFRESHED"}

\* the page has mounted and its effect has run; FileManager does not exist yet
GateInit ==
  /\ gate = GateWaiting
  /\ selectedFolder = NULL /\ files = <<>> /\ folders = {}
  /\ loading = TRUE /\ uploading = FALSE /\ uploadProgress = <<>>
  /\ dbFiles = {} /\ dbFolders = Folders /\ blobs = {}
  /\ batch = [b \in Batches |-> IdleBatch]
  /\ del = IdleDel /\ fdel = IdleFileDel
  /\ pendingFiles = {} /\ pendingFolders = FALSE
  /\ timers = [n \in Names |-> 0]
  /\ clock = 1
  /\ alerts = {} /\ calls = {} /\ queries = {} /\ inserted = {} /\ delHist = {}
  /\ faults = 0 /\ selects = 0

\* mutant of AuthEvent: the listener looks at the event's name only
AuthEventByNameOnly(ev, hasSession) ==
  /\ gate.events < MaxAuthEvents
  /\ gate' = [gate EXCEPT
                 !.events = @ + 1,
                 !.last = [event |-> ev, session |-> hasSession],
                 !.pushes = IF gate.subscribed /\ ev = "SIGNED_OUT"
                            THEN @ + 1 ELSE @]
  /\ UNCHANGED <<uiVars, storeVars, batch, del, fdel, pendingFiles,
                 pendingFolders, timers, clock, histVars, faults>>

\* the onAuthStateChange callback: event === "SIGNED_OUT" || !session pushes
\* "/"; after unsubscribe() the callback is no longer called
AuthEvent(ev, hasSession) ==
  /\ gate.events < MaxAuthEvents
  /\ gate' = [gate EXCEPT
                 !.events = @ + 1,
                 !.last = [event |-> ev, session |-> hasSession],
                 !.pushes = IF gate.subscribed /\ (ev = "SIGNED_OUT" \/ ~hasSession)
                            THEN @ + 1 ELSE @]
  /\ UNCHANGED <<uiVars, storeVars, batch, del, fdel, pendingFiles,
                 pendingFolders, timers, clock, histVars, faults>>

\* the answer of supabase.auth.getUser(): without a user push "/" and return;
\* with one setUser(user), so that FileManager is rendered and its effect
\* issues loadFiles() and loadFolders() (a state update of an unmounted page
\* is dropped)
GetUserDone(found) ==
  /\ gate.check = "pending"
  /\ IF found
     THEN /\ gate' = [gate EXCEPT !.check = "user", !.user = gate.mounted]
          /\ pendingFiles' = IF gate.mounted THEN {NULL} ELSE pendingFiles
          /\ pendingFolders' = gate.mounted
          /\ queries' = IF gate.mounted
                        THEN {query("listFiles", listFilesFilter(NULL)),
                              query("listFolders", listFoldersFilter)}
                        ELSE queries
     ELSE /\ gate' = [gate EXCEPT !.check = "none", !.pushes = @ + 1]
          /\ UNCHANGED <<pendingFiles, pendingFolders, queries>>
  /\ UNCHANGED <<uiVars, storeVars, batch, del, fdel, timers, clock, alerts,
                 calls, inserted, delHist, selects, faults>>

\* the effect's cleanup when the page unmounts: subscription.unsubscribe()
Teardown ==
  /\ gate.mounted
  /\ gate' = [gate EXCEPT !.mounted = FALSE, !.subscribed = FALSE]
  /\ UNCHANGED <<uiVars, storeVars, batch, del, fdel, pendingFiles,
                 pendingFolders, timers, clock, histVars, faults>>

\* how far the workflow is followed behind the gate
GateScope == filesUpTo(MaxBatches) <= MaxGateFiles /\ faults <= MaxGateFaults

\* `user ? <FileManager user={user} /> : null`: the workflow runs only while
\* the page is mounted with `user` set (what continuations of an unmounted
\* FileManager still do is not followed)
FileManagerStep ==
  /\ gate.user /\ gate.mounted
  /\ Next
  /\ GateScope'

GateNext ==
  \/ \E found \in BOOLEAN : GetUserDone(found)
  \/ \E ev \in AuthEvents, hasSession \in BOOLEAN : AuthEvent(ev, hasSession)
  \/ Teardown
  \/ FileManagerStep

GateSpec == GateInit /\ [][GateNext]_vars

\* ======================================================================
\* Properties
\* ======================================================================

LimitBytes == 50 * 1024 * 1024
Slots == 1..MaxBatchLen
\* an upload cycle (blob write through metadata write and refresh) is running
InCycle == {"blob", "insert", "remove", "loadFiles"}
\* the requests of kind op that upload (b, i) has issued
callsOf(log, op, b, i) == {c \in log : c.op = op /\ c.b = b /\ c.i = i}
rowsOf(log, b, i) == {x \in log : x.b = b /\ x.i = i}
\* in this step the uploadFile call of batch b's current file returns
Returns(b) == batch'[b].idx = batch[b].idx + 1
uploadAlert(b, i) == alertMsg("upload", b, i, NULL)

\* ---------------------------------------------------------------- C1
\* C1: uploadFile of a file larger than 50 MB (50*1024*1024 bytes) issues no
\* blob-store and no metadata-store request, leaves the UploadTask list (and
\* the stores) exactly as they were, shows the size message and returns; no
\* request ever issued is about a file above the limit.
C1_OversizeRejected ==
  /\ [](\A c \in calls : c.size <= LimitBytes)
  /\ [][\A b \in Batches :
          (batch[b].pc = "next" /\ Head(batch[b].queue).size > LimitBytes)
            => /\ uploadProgress' = uploadProgress
               /\ calls' = calls
               /\ inserted' = inserted
               /\ dbFiles' = dbFiles /\ dbFolders' = dbFolders /\ blobs' = blobs
               /\ uploading' = uploading
               /\ alerts' \ alerts = {alertMsg("oversize", b, batch[b].idx, NULL)}
               /\ Returns(b)]_vars

\* C1 witness: the second file of a batch was rejected for its size while the
\* first file's task is in the list; the rejected file has no task, no request
C1_Witness ==
  \E a \in alerts :
     /\ a.kind = "oversize" /\ a.i = 2
     /\ taskOf(uploadProgress, a.b, 1) # {}
     /\ taskOf(uploadProgress, a.b, 2) = {}
     /\ callsOf(calls, "upload", a.b, 2) = {}

\* ---------------------------------------------------------------- C2
\* the part of C2 that does not depend on which selection is meant: while the
\* upload whose blob write and insert both succeeded awaits its refresh,
\* exactly one row was inserted for it, and the row's storage_path and name
\* are the one path its blob upload request named
C2_OneRowAtPath(b) ==
  LET i == batch[b].idx
      mine == rowsOf(inserted, b, i)
  IN /\ Cardinality(mine) = 1
     /\ Cardinality(callsOf(calls, "upload", b, i)) = 1
     /\ \A x \in mine, c \in callsOf(calls, "upload", b, i) :
           x.row.storage_path = c.path /\ x.row.name = c.path

\* C2 as stated (refuted): ... and the row's folder_id is the folder that was
\* selected when this file's uploadFile call started
C2_FolderAtUploadStart ==
  \A b \in Batches :
     /\ \A i \in Slots : Cardinality(rowsOf(inserted, b, i)) <= 1
     /\ batch[b].pc = "loadFiles" =>
          /\ C2_OneRowAtPath(b)
          /\ \A x \in rowsOf(inserted, b, batch[b].idx) :
                x.row.folder_id = batch[b].startSel

\* C2 amended: for every upload whose blob write and insert both succeed,
\* exactly one row is inserted, its storage_path and name equal the path the
\* blob was written to, and its folder_id is the folder that was selected when
\* the drop or file-picker event that handed the file over was handled (NULL
\* for top-level), whatever the selection has become since.
C2_FolderAtBatchStart ==
  /\ [](\A b \in Batches :
          /\ \A i \in Slots : Cardinality(rowsOf(inserted, b, i)) <= 1
          /\ batch[b].pc = "loadFiles" =>
               /\ C2_OneRowAtPath(b)
               /\ \A x \in rowsOf(inserted, b, batch[b].idx) :
                     x.row.folder_id = batch[b].sel)
  /\ [][\A b \in Batches :
          /\ (batch[b].pc = "idle" /\ batch'[b].pc # "idle")
                => batch'[b].sel = selectedFolder
          /\ batch[b].pc # "idle" => batch'[b].sel = batch[b].sel]_vars

\* C2 witness: the second file of a batch has its row inserted, in the folder
\* of the batch, after the selection had changed before its upload started
C2_Witness ==
  \E b \in Batches :
     /\ batch[b].pc = "loadFiles" /\ batch[b].idx = 2
     /\ batch[b].startSel # batch[b].sel
     /\ \E x \in rowsOf(inserted, b, 2) : x.row.folder_id = batch[b].sel
     /\ selectedFolder # batch[b].sel

\* ---------------------------------------------------------------- C3
\* the store side of C3, which holds: when the upload whose insert failed
\* returns, it has asked to remove exactly the path it wrote, a successful
\* remove leaves no blob there, no row has that path, an error was shown
C3_StoreSide(b) ==
  LET i == batch[b].idx
      p == batch[b].path
  IN /\ {c.path : c \in callsOf(calls', "remove", b, i)} = {p}
     /\ \E c \in callsOf(calls, "upload", b, i) : c.path = p
     /\ faults' = faults => p \notin blobs'
     /\ \A r \in dbFiles' : r.storage_path # p
     /\ rowsOf(inserted', b, i) = {}
     /\ uploadAlert(b, i) \in alerts'

\* C3 (refuted by the code): if the blob write succeeds and the insert fails,
\* remove is called on exactly the just-written path, a successful remove
\* leaves no blob there, no FileRecord exists for the path, the upload's task
\* ends in status error and an error is shown.
C3_CompensationAndErrorTask ==
  [][\A b \in Batches :
       (batch[b].pc = "remove" /\ Returns(b))
         => /\ C3_StoreSide(b)
            /\ taskStatus(uploadProgress', b, batch[b].idx) = "error"]_vars

\* the part of C3 without the task's status
C3_StoreSideHolds ==
  [][\A b \in Batches : (batch[b].pc = "remove" /\ Returns(b)) => C3_StoreSide(b)]_vars

\* ---------------------------------------------------------------- C4
\* the request side of C4, which holds: an insert is only issued in the step
\* in which the blob write of the same upload and path succeeds, and an upload
\* whose blob write failed returns without an insert and with an error shown
C4_InsertAfterBlob ==
  [][/\ \A c \in calls' \ calls :
          c.op = "insert" =>
             /\ c.path \in blobs' \ blobs
             /\ callsOf(calls, "upload", c.b, c.i) # {}
             /\ \A u \in callsOf(calls, "upload", c.b, c.i) : u.path = c.path
     /\ \A b \in Batches :
          (batch[b].pc = "blob" /\ Returns(b))
            => /\ callsOf(calls', "insert", b, batch[b].idx) = {}
               /\ batch[b].path \notin blobs'
               /\ uploadAlert(b, batch[b].idx) \in alerts']_vars

\* C4 (refuted by the code): if the blob write fails, the insert is never
\* invoked for that file, the file's task ends with status error and progress
\* 100, and the error is shown.
C4_BlobFailureEndsInError ==
  [][\A b \in Batches :
       (batch[b].pc = "blob" /\ Returns(b))
         => /\ callsOf(calls', "insert", b, batch[b].idx) = {}
            /\ uploadAlert(b, batch[b].idx) \in alerts'
            /\ taskStatus(uploadProgress', b, batch[b].idx) = "error"
            /\ taskProgress(uploadProgress', b, batch[b].idx) = 100]_vars

\* ---------------------------------------------------------------- C5
\* C5 (refuted by the code): at no time are two upload cycles in flight.
C5_OneCycleAtATime ==
  Cardinality({b \in Batches : batch[b].pc \in InCycle}) <= 1

\* ---------------------------------------------------------------- C6
\* a file of batch b before the current one was rejected or failed
failedEarlier(b) ==
  \E a \in alerts : a.kind \in {"oversize", "upload"} /\ a.b = b /\ a.i < batch[b].idx
\* in this step batch b's current file is rejected or its upload fails
FailsNow(b) ==
  \E a \in alerts' \ alerts :
     a.kind \in {"oversize", "upload"} /\ a.b = b /\ a.i = batch[b].idx

\* the loop side of C6, which holds: when a file fails and files follow it,
\* the loop goes on with the next file
C6_LoopGoesOn ==
  [][\A b \in Batches :
       (FailsNow(b) /\ Len(batch[b].queue) > 1)
         => /\ batch'[b].pc = "next"
            /\ batch'[b].queue = Tail(batch[b].queue)]_vars

\* C6 (refuted by the code): in a batch, a file's failure never prevents the
\* upload of the files after it: each later file is still attempted, and a
\* later file's success is recorded as completed.
C6_LaterFilesUnaffected ==
  [][\A b \in Batches :
       /\ (FailsNow(b) /\ Len(batch[b].queue) > 1)
            => /\ batch'[b].pc = "next"
               /\ batch'[b].queue = Tail(batch[b].queue)
       /\ (batch[b].pc = "loadFiles" /\ failedEarlier(b) /\ Returns(b))
            => taskStatus(uploadProgress', b, batch[b].idx) = "completed"]_vars

\* ---------------------------------------------------------------- C7
\* C7 (refuted by the code): every UploadTask that reaches completed or error
\* is eventually removed from the list.
C7_TerminalTasksRemoved ==
  \A b \in Batches, i \in Slots :
     (taskStatus(uploadProgress, b, i) \in {"completed", "error"})
        ~> (taskStatus(uploadProgress, b, i) = "missing")

\* ---------------------------------------------------------------- C8
\* C8 (refuted by the code): after every confirmed deleteFolder call both
\* listings are refreshed, whichever delete failed, and a failure of the
\* folder-record delete is shown to the user with the refresh still performed.
C8_AlwaysRefreshed ==
  \A h \in delHist :
     /\ h.refFolders /\ h.refFiles
     /\ ~h.folderOk => h.alerted

\* what the code does instead: both listings are refreshed exactly when the
\* folder-record delete succeeded, whether or not the bulk delete failed; when
\* it failed the error is shown and neither listing is refreshed
C8_RefreshedOnSuccess ==
  \A h \in delHist :
     /\ h.folderAsked
     /\ h.folderOk => (h.refFolders /\ h.refFiles)
     /\ ~h.folderOk => (h.alerted /\ ~h.refFolders /\ ~h.refFiles)

\* ---------------------------------------------------------------- C9
\* C9 (refuted by the code): once a confirmed deleteFolder(d) whose
\* folder-record delete succeeded has returned, the selected folder is not d.
C9_SelectionNotDeleted ==
  \A h \in delHist : h.folderOk => selectedFolder # h.folderId

\* ---------------------------------------------------------------- C10
\* the first half of C10, which holds: a failed bulk delete shows nothing and
\* the folder-record delete is issued next
C10_CascadeFailureGoesOn ==
  [][(del.pc = "files" /\ del'.pc # "files")
        => (del'.pc = "folder" /\ del'.folderAsked /\ alerts' = alerts)]_vars

\* C10 (refuted by the code): a failure of the bulk delete does not abort
\* deleteFolder and shows no error, the folder-record delete is still issued;
\* and when the bulk delete succeeded, no FileRecord with that folder_id
\* remains after the operation.
C10_CascadeLeavesNoRows ==
  /\ [][(del.pc = "files" /\ del'.pc # "files")
          => (del'.pc = "folder" /\ del'.folderAsked /\ alerts' = alerts)]_vars
  /\ [](\A h \in delHist : h.folderAsked /\ (h.cascadeOk => ~h.rowsLeft))

\* ---------------------------------------------------------------- C11
\* C11 (refuted by the code): every metadata request the workflow issues
\* (list files, list folders, insert file, delete files by folder, delete
\* folder, delete file) names the session user's id: its filter, or the row
\* it inserts, has the column user_id.
C11_RequestsScopedToUser ==
  \A q \in queries : "user_id" \in q.cols

\* the part of C11 that holds: the listings and the insert name the user
C11_ListsAndInsertsScoped ==
  \A q \in queries :
     q.op \in {"listFiles", "listFolders", "insertFile"} => "user_id" \in q.cols

\* ---------------------------------------------------------------- C13
\* the step belongs to upload (b, i): batch b is at its file i and moves
OwnStep(b, i) == batch[b].idx = i /\ batch'[b] # batch[b]
\* the step is a removal timer firing
TimerStep == timers' # timers /\ batch' = batch

\* C13 (refuted by the code): the task of every upload changes status only
\* from uploading to completed or from uploading to error, a completed task
\* never becomes error nor an error task completed, and the task is changed
\* only by steps of its own upload and removed only, once completed or error,
\* by a removal timer: no step of another upload changes or removes it.
C13_TaskStateMachine ==
  [][\A b \in Batches, i \in Slots :
       LET before == taskStatus(uploadProgress, b, i)
           after == taskStatus(uploadProgress', b, i)
       IN /\ after # before =>
               \/ before = "missing" /\ after = "uploading"
               \/ before = "uploading" /\ after \in {"completed", "error"}
               \/ before \in {"completed", "error"} /\ after = "missing"
          /\ taskOf(uploadProgress', b, i) # taskOf(uploadProgress, b, i) =>
               \/ OwnStep(b, i)
               \/ TimerStep /\ before \in {"completed", "error"}]_vars

\* ---------------------------------------------------------------- C14
\* the folders whose file listing has been requested and not yet answered
filesAsked ==
  pendingFiles
    \cup {batch[b].sel : b \in {c \in Batches : batch[c].pc = "loadFiles"}}
    \cup (IF del.pc = "loadFiles" THEN {del.sel} ELSE {})
    \cup (IF fdel.pc = "loadFiles" THEN {fdel.sel} ELSE {})
foldersAsked == pendingFolders \/ del.pc = "loadFolders"

\* C14: a step in which a backend request fails changes neither the displayed
\* file listing nor the displayed folder listing; the file listing changes
\* only to the complete answer of an outstanding loadFiles request that
\* succeeded, the folder listing only to the complete answer of an outstanding
\* loadFolders request that succeeded.
C14_FailedListingKeepsList ==
  [][/\ faults' # faults => (files' = files /\ folders' = folders)
     /\ files' # files =>
          (faults' = faults /\ \E t \in filesAsked : files' = listFiles(t))
     /\ folders' # folders =>
          (faults' = faults /\ foldersAsked /\ folders' = listFolders)]_vars

\* C14 witness: both files of a drop were inserted at top level and nothing
\* was deleted or selected, yet the listing shows one row: the refresh after
\* the second upload failed and left the earlier listing as it was
C14_Witness ==
  /\ batch[1].pc = "done" /\ batch[1].idx = 3 /\ batch[2].pc = "idle"
  /\ rowsOf(inserted, 1, 1) # {} /\ rowsOf(inserted, 1, 2) # {}
  /\ selects = 0 /\ del.n = 0 /\ pendingFiles = {}
  /\ faults > 0
  /\ Len(files) = 1
  /\ Len(listFiles(selectedFolder)) = 2

\* ---------------------------------------------------------------- C15
deleteFileQuery == query("deleteFile", deleteFileFilter(0))

\* C15: handleDeleteFile asks for the delete of the FileRecord only in the
\* step in which the removal of its blob has succeeded (a declined
\* confirmation issues nothing); when the blob removal fails, no delete of the
\* record is issued, the record is kept, the displayed listing is neither
\* refreshed nor changed, the error is shown and handleDeleteFile returns.
C15_RowDeleteAfterBlobRemoval ==
  [][/\ (fdel.pc = "idle" /\ fdel'.pc # "idle")
          => (fdel'.pc = "blob" /\ queries' = queries /\ dbFiles' = dbFiles)
     /\ (fdel.pc = "idle" /\ fdel'.pc = "idle") => deleteFileQuery \notin queries' \ queries
     /\ (deleteFileQuery \in queries' \ queries \/ (fdel.pc # "row" /\ fdel'.pc = "row"))
          => /\ fdel.pc = "blob" /\ fdel'.pc = "row"
             /\ faults' = faults
             /\ fdel.file.storage_path \notin blobs'
     /\ (fdel.pc = "blob" /\ fdel'.pc = "idle")
          => /\ faults' # faults
             /\ queries' = queries
             /\ dbFiles' = dbFiles
             /\ blobs' = blobs
             /\ files' = files
             /\ alertMsg("deleteFile", 0, 0, fdel.file.id) \in alerts'
             /\ alerts' \ alerts \subseteq {alertMsg("deleteFile", 0, 0, fdel.file.id)}
     /\ (\E r \in dbFiles \ dbFiles' : TRUE) /\ del.pc # "files"
          => (fdel.pc = "row" /\ dbFiles \ dbFiles' = {fdel.file})]_vars

\* C15 witness: handleDeleteFile has returned after its blob removal failed:
\* the error was shown, no delete of a record was ever issued, the record, its
\* blob and the displayed row are all still there
C15_Witness ==
  /\ fdel.pc = "idle" /\ fdel.n = 1
  /\ deleteFileQuery \notin queries
  /\ \E a \in alerts : a.kind = "deleteFile" /\
        \E r \in dbFiles : /\ r.id = a.d
                           /\ r.storage_path \in blobs
                           /\ \E k \in DOMAIN files : files[k] = r

\* ---------------------------------------------------------------- C16
\* no handler is running and no request is outstanding
Quiescent ==
  /\ \A b \in Batches : batch[b].pc \in {"idle", "done"}
  /\ del.pc = "idle" /\ fdel.pc = "idle"
  /\ pendingFiles = {} /\ ~pendingFolders
\* every blob is the storage_path of exactly one row, every row's blob exists
BlobsMatchRows ==
  /\ blobs = {r.storage_path : r \in dbFiles}
  /\ \A r, q \in dbFiles : r.storage_path = q.storage_path => r = q

\* C16 (refuted by the code): whenever no operation is in flight and no
\* backend call has returned an error, every blob is referenced by exactly one
\* FileRecord and every FileRecord's blob exists.
C16_BlobsAndRowsAgree ==
  (Quiescent /\ faults = 0) => BlobsMatchRows

\* the part of C16 that holds: the same, in runs without a deleteFolder call
\* (uploads and single-file deletes keep blobs and rows in step)
C16_AgreeWithoutFolderDelete ==
  (Quiescent /\ faults = 0 /\ del.n = 0) => BlobsMatchRows

\* ---------------------------------------------------------------- C17
\* the step issues the loadFiles() that a mutation (upload, deleteFolder,
\* handleDeleteFile) awaits, for folder t
RefreshIssued(t) ==
  \/ \E b \in Batches :
        batch[b].pc # "loadFiles" /\ batch'[b].pc = "loadFiles" /\ t = batch'[b].sel
  \/ del.pc # "loadFiles" /\ del'.pc = "loadFiles" /\ t = del'.sel
  \/ fdel.pc # "loadFiles" /\ fdel'.pc = "loadFiles" /\ t = fdel'.sel

\* the step answers the refresh of the last upload of batch b, in a run whose
\* listing requests were answered in the order they were issued: b is the
\* only batch and nothing was deleted, so the other listing requests are
\* those of the mount and of the one selection change, and that change was
\* made before this upload started (startSel), hence before its refresh
LastRefreshInOrder(b) ==
  /\ batch[b].pc = "loadFiles" /\ batch'[b].pc = "done"
  /\ \A c \in Batches \ {b} : batch[c].pc = "idle"
  /\ del.n = 0 /\ fdel.n = 0 /\ selects <= 1
  /\ batch[b].startSel = selectedFolder
  /\ Quiescent'
  /\ faults' = 0

\* C17 (refuted by the code): when responses come in the order of their
\* requests and no request fails, once no request is outstanding the displayed
\* file listing is exactly the user's records of the current selection; and
\* every refresh issued after a mutation asks for the folder selected at the
\* time it is issued.
C17_ListingFollowsSelection ==
  [][/\ \A b \in Batches :
          LastRefreshInOrder(b)
            => files' = NewestFirst(matching(dbFiles', listFilesFilter(selectedFolder')))
     /\ \A t \in Folders \cup {NULL} : RefreshIssued(t) => t = selectedFolder']_vars

\* the first half of C17 alone (refuted as well)
C17_QuiescentListing ==
  [][\A b \in Batches :
       LastRefreshInOrder(b)
         => files' = NewestFirst(matching(dbFiles', listFilesFilter(selectedFolder')))]_vars

\* ---------------------------------------------------------------- C18
NoCycleInFlight == \A b \in Batches : batch[b].pc \notin InCycle

\* C18 (refuted by the code): provided every backend call is answered, the
\* task of every upload eventually leaves uploading for completed or error,
\* and the uploading flag is eventually false once no upload cycle is in
\* flight.
C18_UploadsLeaveUploading ==
  /\ \A b \in Batches, i \in Slots :
        (taskStatus(uploadProgress, b, i) = "uploading")
           ~> (taskStatus(uploadProgress, b, i) \in {"completed", "error"})
  /\ NoCycleInFlight ~> ~uploading

\* the part of C18 about the flag, which holds even without waiting: with no
\* upload cycle in flight the uploading flag is false
C18_FlagFalseWhenNoCycle ==
  NoCycleInFlight => ~uploading

\* ---------------------------------------------------------------- C12
\* some request of the workflow has been issued, or a handler of it has run
WorkflowActive ==
  \/ queries # {} \/ calls # {}
  \/ pendingFiles # {} \/ pendingFolders
  \/ \E b \in Batches : batch[b].pc # "idle"
  \/ del # IdleDel \/ fdel # IdleFileDel
  \/ dbFiles # {} \/ blobs # {} \/ dbFolders # Folders
\* the listener is called with a signed-out or a session-less event
RedirectingEvent(g) == g.last.event = "SIGNED_OUT" \/ ~g.last.session

\* C12: when the session check finds no user the page pushes "/" and the
\* workflow is never activated: FileManager is only ever rendered after the
\* check found a user, and no listing, upload or delete request exists in a
\* state reached without that; every signed-out or session-less auth event
\* delivered before the unsubscribe pushes "/", and no event delivered after
\* the unsubscribe does.
C12_GateGuardsWorkflow ==
  /\ [](/\ WorkflowActive => (gate.user /\ gate.check = "user")
        /\ gate.user => gate.check = "user"
        /\ gate.check = "none" => (~gate.user /\ gate.pushes >= 1 /\ ~WorkflowActive))
  /\ [][/\ (gate.check = "pending" /\ gate'.check = "none")
             => (gate'.pushes = gate.pushes + 1 /\ ~gate'.user)
        /\ gate.check = "none" => gate'.check = "none"
        /\ (gate'.events # gate.events /\ gate.subscribed /\ RedirectingEvent(gate'))
             => gate'.pushes = gate.pushes + 1
        /\ (gate'.events # gate.events /\ ~gate.subscribed)
             => gate'.pushes = gate.pushes
        /\ ~gate.subscribed => ~gate'.subscribed]_vars

\* C12 witness: the check found no user and pushed "/", later a session-less
\* event that is not a sign-out pushed again; the workflow never ran
C12_Witness ==
  /\ gate.check = "none" /\ ~gate.user
  /\ gate.events = 1 /\ gate.last.event # "SIGNED_OUT" /\ ~gate.last.session
  /\ gate.pushes = 2
  /\ ~WorkflowActive

====
